---- MODULE Spec2Model ----
(***************************************************************************)
(* Copilot chat extension: the live event handler of CopilotService, the  *)
(* provider that dispatches webview requests to it, the webview's message *)
(* reducer, and the transcript reconstruction of resumeSession.           *)
(*                                                                         *)
(* Strings are sequences of one-character strings; a literal of the code  *)
(* that is never inspected is a single fragment (<<"Reading ">>).         *)
(***************************************************************************)
EXTENDS Integers, Sequences, FiniteSets, TLC

(***************************************************************************)
(* Bounds of the model.                                                    *)
(***************************************************************************)
MaxMsgs == 2
MaxSessions == 2
MaxQueue == 2
MaxHostQueue == 2
MaxTasks == 1
MaxText == 2
MaxLog == 3
MaxBody == 5
MaxResumes == 2
MaxRepeatBody == 4
MaxLiveBody == 2

(***************************************************************************)
(* JavaScript null / undefined, one per type that TLC can compare.         *)
(***************************************************************************)
NoId == 0
NoSession == 0
NoModel == "null"
NoName == "undefined"
Undef == <<"undefined">>
UndefNum == -1
UndefRec == [undefined |-> TRUE]

Truthy(s) == s # Undef /\ s # <<>>

Or(a, b) == IF Truthy(a) THEN a ELSE b

Lit(s) == <<s>>

(***************************************************************************)
(* Tool names, arguments and results the backend reports.                  *)
(***************************************************************************)
internalTools == {"report_intent", "suggest_mode"}

(* Variant of isInternalTool that knows report_intent only.                 *)
isInternalTool_ReportIntentOnly(toolName) == toolName = "report_intent"

isInternalTool(toolName) == toolName \in internalTools

ArgKeys == {"path", "AbsolutePath", "TargetFile", "file", "filePath", "File",
            "FilePath", "content", "command", "CommandLine", "query",
            "pattern", "Query", "Pattern", "DirectoryPath", "directory", "dir"}

EmptyArgs == [k \in ArgKeys |-> Undef]

EmptyResult == [content |-> Undef, linesAdded |-> UndefNum, linesRemoved |-> UndefNum]

CmdLimit == 40
QueryLimit == 30

Humanized(toolName) ==
    CASE toolName = "my_tool" -> <<"M", "y", " ", "t", "o", "o", "l">>
      [] toolName = "report_intent" -> <<"R", "e", "p", "o", "r", "t", " ", "i", "n", "t", "e", "n", "t">>
      [] toolName = "suggest_mode" -> <<"S", "u", "g", "g", "e", "s", "t", " ", "m", "o", "d", "e">>
      [] toolName = "unknown" -> <<"U", "n", "k", "n", "o", "w", "n">>
      [] OTHER -> Lit(toolName)

extractFilePath(args) ==
    Or(args.path, Or(args.AbsolutePath, Or(args.TargetFile, Or(args.file,
       Or(args.filePath, Or(args.File, Or(args.FilePath, <<>>)))))))

IsSep(c) == c = "/" \/ c = "\\"

RECURSIVE LastPart(_)
LastPart(p) ==
    IF p = <<>> THEN <<>>
    ELSE IF IsSep(p[Len(p)]) THEN <<>>
    ELSE Append(LastPart(SubSeq(p, 1, Len(p) - 1)), p[Len(p)])

getFileName(path) ==
    IF ~Truthy(path) THEN Lit("file")
    ELSE IF LastPart(path) # <<>> THEN LastPart(path) ELSE path

RECURSIVE CountNewlines(_)
CountNewlines(s) ==
    IF s = <<>> THEN 0
    ELSE (IF Head(s) = "\n" THEN 1 ELSE 0) + CountNewlines(Tail(s))

Truncate(s, limit) ==
    IF Len(s) > limit THEN SubSeq(s, 1, limit) \o Lit("...") ELSE s

Num(n) == Lit(ToString(n))

ToolLabel(toolName, status, args) ==
    LET loading == status = "loading" IN
    CASE toolName \in {"view", "read_file", "view_file"} ->
           (IF loading THEN Lit("Reading ") ELSE Lit("Read "))
             \o getFileName(extractFilePath(args))
      [] toolName \in {"write_file", "write_to_file", "create_file"} ->
           LET isCreate == toolName \in {"create_file", "write_to_file"} IN
           (IF loading THEN (IF isCreate THEN Lit("Creating ") ELSE Lit("Writing "))
                       ELSE (IF isCreate THEN Lit("Create ") ELSE Lit("Write ")))
             \o getFileName(extractFilePath(args))
      [] toolName \in {"edit", "edit_file", "replace_file_content",
                       "multi_replace_file_content"} ->
           (IF loading THEN Lit("Editing ") ELSE Lit("Edit "))
             \o getFileName(extractFilePath(args))
      [] toolName \in {"run_command", "execute_command"} ->
           IF loading THEN Lit("Running command") ELSE Lit("Ran command")
      [] toolName \in {"grep_search", "search", "find_by_name"} ->
           IF loading THEN Lit("Searching") ELSE Lit("Searched")
      [] toolName \in {"list_directory", "list_dir"} ->
           (IF loading THEN Lit("Listing ") ELSE Lit("Listed "))
             \o getFileName(Or(extractFilePath(args), Or(args.DirectoryPath,
                                 Or(args.directory, args.dir))))
      [] toolName \in {"web_search", "search_web"} ->
           IF loading THEN Lit("Searching web") ELSE Lit("Searched web")
      [] OTHER ->
           IF loading THEN Humanized(toolName) \o Lit("...") ELSE Humanized(toolName)

ToolDetails(toolName, status, args, result) ==
    CASE toolName \in {"view", "read_file", "view_file"} ->
           IF Truthy(result.content)
           THEN Num(CountNewlines(result.content) + 1) \o Lit(" lines")
           ELSE Undef
      [] toolName \in {"write_file", "write_to_file", "create_file"} ->
           IF Truthy(args.content)
           THEN Lit("(+") \o Num(CountNewlines(args.content) + 1) \o Lit(")")
           ELSE Undef
      [] toolName \in {"edit", "edit_file", "replace_file_content",
                       "multi_replace_file_content"} ->
           IF result.linesAdded # UndefNum \/ result.linesRemoved # UndefNum
           THEN LET added == IF result.linesAdded > 0 THEN result.linesAdded ELSE 0
                    removed == IF result.linesRemoved > 0 THEN result.linesRemoved ELSE 0
                IN IF removed > 0
                   THEN Lit("(+") \o Num(added) \o Lit(" -") \o Num(removed) \o Lit(")")
                   ELSE IF added > 0 THEN Lit("(+") \o Num(added) \o Lit(")")
                   ELSE Undef
           ELSE Undef
      [] toolName \in {"run_command", "execute_command"} ->
           Truncate(Or(args.command, Or(args.CommandLine, <<>>)), CmdLimit)
      [] toolName \in {"grep_search", "search", "find_by_name"} ->
           Truncate(Or(args.query, Or(args.pattern, Or(args.Query,
                       Or(args.Pattern, <<>>)))), QueryLimit)
      [] toolName \in {"web_search", "search_web"} -> args.query
      [] OTHER -> Undef

(***************************************************************************)
(* createToolEvent(data, status).  The id and the timestamp of the event   *)
(* are Date.now() values; they take no part in any decision and are left   *)
(* out of the record.                                                      *)
(***************************************************************************)
createToolEvent(data, status) ==
    LET toolName == IF data.toolName = NoName THEN "unknown" ELSE data.toolName
        args == IF data.arguments = UndefRec THEN EmptyArgs ELSE data.arguments
        result == IF data.result = UndefRec THEN EmptyResult ELSE data.result
        details == IF status = "error" /\ data.error # UndefRec
                   THEN Or(data.error.message, Lit("Error occurred"))
                   ELSE ToolDetails(toolName, status, args, result)
    IN [toolCallId |-> data.toolCallId,
        toolName   |-> toolName,
        status     |-> status,
        label      |-> ToolLabel(toolName, status, args),
        details    |-> details]

(***************************************************************************)
(* The payload of a tool event is typed `any`.  NumberValue and NumberName *)
(* stand for a field that holds a non-zero number where the formatter      *)
(* expects a string.  createToolEvent raises a TypeError when it calls a   *)
(* string method on such a value: toolName.replace in the default branch,  *)
(* path.replace in getFileName, content.match for the line count.  The     *)
(* command and query branches read .length only and do not raise.          *)
(***************************************************************************)
NumberValue == <<"number">>
NumberName == "<number>"

NotAString(v) == v = NumberValue

createToolEventRaises(data, status) ==
    LET toolName == IF data.toolName = NoName THEN "unknown" ELSE data.toolName
        args == IF data.arguments = UndefRec THEN EmptyArgs ELSE data.arguments
        result == IF data.result = UndefRec THEN EmptyResult ELSE data.result
    IN
    CASE toolName = NumberName -> TRUE
      [] toolName \in {"view", "read_file", "view_file"} ->
           NotAString(extractFilePath(args)) \/ NotAString(result.content)
      [] toolName \in {"write_file", "write_to_file", "create_file"} ->
           NotAString(extractFilePath(args)) \/ NotAString(args.content)
      [] toolName \in {"edit", "edit_file", "replace_file_content",
                       "multi_replace_file_content"} ->
           NotAString(extractFilePath(args))
      [] toolName \in {"list_directory", "list_dir"} ->
           NotAString(Or(extractFilePath(args), Or(args.DirectoryPath,
                            Or(args.directory, args.dir))))
      [] OTHER -> FALSE

(***************************************************************************)
(* Events of the backend session (SessionEvent).                           *)
(***************************************************************************)
CallIds == {"c1"}
ToolNames == {"view", "report_intent"}
ModelIds == {"m1", "m2"}
DefaultModel == "m1"
Chunks == {<<"a">>}
FullTexts == {<<"a">>, <<"b">>}
PathArgs == [EmptyArgs EXCEPT !.path = <<"d", "/", "f">>]
ToolArgs == {PathArgs}
ErrorMessages == {Undef, <<"E">>}
DefaultErrorMessage == Lit("An error occurred during AI processing")
UserText == <<"q">>
UserId == -1

DeltaEvents == [type : {"assistant.message_delta"}, deltaContent : Chunks]
MessageEvents == [type : {"assistant.message"}, content : FullTexts]
IdleEvents == [type : {"session.idle"}]
ErrorEvents == [type : {"session.error"}, message : ErrorMessages]
UsageInfoEvents == [type : {"session.usage_info"}, tokenLimit : {200},
                    currentTokens : {50}, messagesLength : {1}]
ToolStartEvents == [type : {"tool.execution_start"}, toolCallId : CallIds,
                    toolName : ToolNames, arguments : ToolArgs]
ToolCompleteEvents ==
    [type : {"tool.execution_complete"}, toolCallId : CallIds, success : {TRUE},
     error : {UndefRec}, result : {UndefRec}]
    \cup [type : {"tool.execution_complete"}, toolCallId : CallIds, success : {FALSE},
          error : {[message |-> <<"E">>]}, result : {UndefRec}]
OtherEvents == [type : {"session.info"}]

TextEvents == DeltaEvents \cup MessageEvents \cup IdleEvents \cup ErrorEvents
              \cup UsageInfoEvents \cup OtherEvents

ToolEvents == ToolStartEvents \cup ToolCompleteEvents \cup IdleEvents \cup ErrorEvents

(***************************************************************************)
(* State.                                                                  *)
(***************************************************************************)
VARIABLES
    webview,            \* CopilotService.webview is set
    session,            \* CopilotService.session
    currentMessageId,   \* CopilotService.currentMessageId
    currentModel,       \* CopilotService.currentModel
    pendingToolCalls,   \* CopilotService.pendingToolCalls
    liveSessions,       \* backend sessions whose events reach handleEvent
    nextSession,        \* sessions created so far
    nextMsg,            \* message ids generated so far
    tasks,              \* provider handlers suspended at an await
    toHost,             \* webview -> extension host messages in flight
    toWebview,          \* extension host -> webview messages in flight
    messages,           \* App: messages
    isGenerating,       \* App: isGenerating
    streamingMessageId, \* App: streamingMessageId
    showWelcomeScreen,  \* App: showWelcomeScreen
    shouldHonorClearHistory, \* App: shouldHonorClearHistory
    selectedModelId,    \* App: selectedModelId
    last,               \* the backend event handled by the step into this state, with its session
    termSinceOpen,      \* idle/error events handled since the last addMessage
    genOpen,            \* an opened generation has not been ended yet
    submitted,          \* messages the user has submitted
    abortedId,          \* the message that was open when stopGeneration was called
    log,                \* replay: the event log of the session
    pos,                \* replay: events of the log handled so far
    transcript,         \* replay: result of resumeSession, once computed
    formatted           \* formatter: one call of createToolEvent and its outcome

svcVars == <<webview, session, currentMessageId, currentModel, pendingToolCalls,
             liveSessions, nextSession, nextMsg>>
appVars == <<messages, isGenerating, streamingMessageId, showWelcomeScreen,
             shouldHonorClearHistory, selectedModelId>>
histVars == <<termSinceOpen, genOpen, submitted, abortedId>>
replayVars == <<log, pos, transcript, formatted>>
vars == <<svcVars, tasks, toHost, toWebview, appVars, last, histVars, replayVars>>

(* What the provider has got back from resumeSession: whether the last    *)
(* call returned (ok) and with which messages, whether getMessages()       *)
(* returned a log (fetched), how many calls were made (runs), how far the  *)
(* live log had been handled at the last call (at), and the result of the  *)
(* call before it.                                                         *)
NoTranscript == [ok |-> FALSE, done |-> FALSE, messages |-> <<>>, fetched |-> FALSE,
                 runs |-> 0, at |-> 0, prevOk |-> FALSE, prevMessages |-> <<>>]

NoEvent == [type |-> "none"]

NoFormat == [data |-> NoEvent, status |-> "none", done |-> FALSE, raised |-> FALSE,
             event |-> NoEvent]

Init ==
    /\ webview = FALSE
    /\ session = NoSession
    /\ currentMessageId = NoId
    /\ currentModel = NoModel
    /\ pendingToolCalls = <<>>
    /\ liveSessions = {}
    /\ nextSession = 0
    /\ nextMsg = 0
    /\ tasks = <<>>
    /\ toHost = <<>>
    /\ toWebview = <<>>
    /\ messages = <<>>
    /\ isGenerating = FALSE
    /\ streamingMessageId = NoId
    /\ showWelcomeScreen = TRUE
    /\ shouldHonorClearHistory = TRUE
    /\ selectedModelId = DefaultModel
    /\ last = NoEvent
    /\ termSinceOpen = -1
    /\ genOpen = FALSE
    /\ submitted = 0
    /\ abortedId = NoId
    /\ log = <<>>
    /\ pos = 0
    /\ transcript = NoTranscript
    /\ formatted = NoFormat

Room(n) == Len(toWebview) + n <= MaxQueue

RemoveAt(s, i) == SubSeq(s, 1, i - 1) \o SubSeq(s, i + 1, Len(s))

Bump(n) == IF n < 0 THEN n ELSE IF n >= 2 THEN 2 ELSE n + 1

(***************************************************************************)
(* AIChatViewProvider.resolveWebviewView: hands the webview to the service.*)
(***************************************************************************)
resolveWebviewView ==
    /\ ~webview
    /\ webview' = TRUE
    /\ last' = NoEvent
    /\ UNCHANGED <<session, currentMessageId, currentModel, pendingToolCalls,
                   liveSessions, nextSession, nextMsg, tasks, toHost, toWebview,
                   appVars, histVars>>

(***************************************************************************)
(* CopilotService.handleEvent: what it posts to the webview, and the       *)
(* pairing table and current message id it leaves.                         *)
(***************************************************************************)
percentage(e) ==
    IF e.tokenLimit > 0
    THEN (2 * e.currentTokens * 100 + e.tokenLimit) \div (2 * e.tokenLimit)
    ELSE 0

Without(f, k) == [x \in (DOMAIN f) \ {k} |-> f[x]]

With(f, k, v) == [x \in (DOMAIN f) \cup {k} |-> IF x = k THEN v ELSE f[x]]

toolStartPosts(e) ==
    IF isInternalTool(e.toolName) THEN <<>>
    ELSE <<[type |-> "toolEvent", messageId |-> currentMessageId,
            event |-> createToolEvent(
                [toolCallId |-> e.toolCallId, toolName |-> e.toolName,
                 arguments |-> e.arguments, result |-> UndefRec,
                 error |-> UndefRec], "loading")]>>

(* Variant of toolCompletePosts that reports a completion without a cached  *)
(* start instead of dropping it.                                            *)
toolCompletePosts_Unpaired(e) ==
    LET cachedInfo == IF e.toolCallId \in DOMAIN pendingToolCalls
                      THEN pendingToolCalls[e.toolCallId]
                      ELSE [toolName |-> "unknown", arguments |-> EmptyArgs] IN
    <<[type |-> "toolEvent", messageId |-> currentMessageId,
       event |-> createToolEvent(
           [toolCallId |-> e.toolCallId, toolName |-> cachedInfo.toolName,
            arguments |-> cachedInfo.arguments, result |-> e.result,
            error |-> e.error],
           IF e.success THEN "success" ELSE "error")]>>

toolCompletePosts(e) ==
    IF e.toolCallId \notin DOMAIN pendingToolCalls THEN <<>>
    ELSE LET cachedInfo == pendingToolCalls[e.toolCallId] IN
         <<[type |-> "toolEvent", messageId |-> currentMessageId,
            event |-> createToolEvent(
                [toolCallId |-> e.toolCallId, toolName |-> cachedInfo.toolName,
                 arguments |-> cachedInfo.arguments, result |-> e.result,
                 error |-> e.error],
                IF e.success THEN "success" ELSE "error")]>>

(* Variant of sessionErrorPosts that reports the error without ending the   *)
(* generation.                                                              *)
sessionErrorPosts_NoComplete(e) ==
    <<[type |-> "error", message |-> Or(e.message, DefaultErrorMessage)]>>

sessionErrorPosts(e) ==
    <<[type |-> "error", message |-> Or(e.message, DefaultErrorMessage)],
      [type |-> "generationComplete"]>>

handleEventPosts(e) ==
    CASE e.type = "assistant.message_delta" ->
           <<[type |-> "streamChunk", messageId |-> currentMessageId,
              content |-> e.deltaContent]>>
      [] e.type = "assistant.message" ->
           <<[type |-> "streamEnd", messageId |-> currentMessageId,
              content |-> e.content]>>
      [] e.type = "session.idle" -> <<[type |-> "generationComplete"]>>
      [] e.type = "session.usage_info" ->
           <<[type |-> "contextUsageUpdate", tokenLimit |-> e.tokenLimit,
              currentTokens |-> e.currentTokens, messagesLength |-> e.messagesLength,
              percentage |-> percentage(e)]>>
      [] e.type = "tool.execution_start" -> toolStartPosts(e)
      [] e.type = "tool.execution_complete" -> toolCompletePosts(e)
      [] e.type = "session.error" -> sessionErrorPosts(e)
      [] OTHER -> <<>>

(* Variant of handleEventPending that keeps the cached start of a completed *)
(* tool call.                                                               *)
handleEventPending_NoDelete(e) ==
    CASE e.type = "tool.execution_start" ->
           IF isInternalTool(e.toolName) THEN pendingToolCalls
           ELSE With(pendingToolCalls, e.toolCallId,
                     [toolName |-> e.toolName,
                      arguments |-> IF e.arguments = UndefRec THEN EmptyArgs
                                    ELSE e.arguments])
      [] OTHER -> pendingToolCalls

handleEventPending(e) ==
    CASE e.type = "tool.execution_start" ->
           IF isInternalTool(e.toolName) THEN pendingToolCalls
           ELSE With(pendingToolCalls, e.toolCallId,
                     [toolName |-> e.toolName,
                      arguments |-> IF e.arguments = UndefRec THEN EmptyArgs
                                    ELSE e.arguments])
      [] e.type = "tool.execution_complete" ->
           IF e.toolCallId \notin DOMAIN pendingToolCalls THEN pendingToolCalls
           ELSE Without(pendingToolCalls, e.toolCallId)
      [] OTHER -> pendingToolCalls

(* Variant of handleEventMessageId that closes the message on error only.   *)
handleEventMessageId_ErrorOnly(e) ==
    IF e.type = "session.error" THEN NoId ELSE currentMessageId

(* Variant of handleEventMessageId that also closes the message when the    *)
(* complete assistant message arrives.                                      *)
handleEventMessageId_ClearOnMessage(e) ==
    IF e.type \in {"session.idle", "session.error", "assistant.message"}
    THEN NoId ELSE currentMessageId

handleEventMessageId(e) ==
    IF e.type \in {"session.idle", "session.error"} THEN NoId ELSE currentMessageId

IsTerminal(e) == e.type \in {"session.idle", "session.error"}

handleEvent(sid, e) ==
    /\ sid \in liveSessions
    /\ IF ~webview
       THEN UNCHANGED <<toWebview, pendingToolCalls, currentMessageId, histVars>>
       ELSE /\ Room(Len(handleEventPosts(e)))
            /\ toWebview' = toWebview \o handleEventPosts(e)
            /\ pendingToolCalls' = handleEventPending(e)
            /\ currentMessageId' = handleEventMessageId(e)
            /\ termSinceOpen' = IF IsTerminal(e) THEN Bump(termSinceOpen)
                                ELSE termSinceOpen
            /\ genOpen' = IF IsTerminal(e) THEN FALSE ELSE genOpen
            /\ abortedId' = IF IsTerminal(e) THEN NoId ELSE abortedId
            /\ UNCHANGED submitted
    /\ last' = [k \in DOMAIN e \cup {"sid"} |-> IF k = "sid" THEN sid ELSE e[k]]
    /\ UNCHANGED <<webview, session, currentModel, liveSessions, nextSession,
                   nextMsg, tasks, toHost, appVars>>

(***************************************************************************)
(* The backend delivers any event of any live session, one at a time.      *)
(* StreamedText bounds the text streamed into the webview.                 *)
(***************************************************************************)
RECURSIVE SumLen(_)
SumLen(ms) ==
    IF ms = <<>> THEN 0
    ELSE (IF Head(ms).role = "assistant" THEN Len(Head(ms).content) ELSE 0)
         + SumLen(Tail(ms))

StreamedText ==
    SumLen(messages)
    + Cardinality({i \in 1..Len(toWebview) : toWebview[i].type = "streamChunk"})

BackendEvent(events) ==
    \E sid \in liveSessions : \E e \in events :
        /\ e.type = "assistant.message_delta" => StreamedText < MaxText
        /\ handleEvent(sid, e)
        /\ UNCHANGED replayVars

(* Variant of OpenMessage that does not announce the message it opens.     *)
OpenMessage_Unannounced(modelId) ==
    /\ nextMsg' = nextMsg + 1
    /\ currentMessageId' = nextMsg + 1
    /\ toWebview' = toWebview
    /\ termSinceOpen' = 0
    /\ genOpen' = TRUE
    /\ UNCHANGED <<submitted, abortedId>>

(***************************************************************************)
(* CopilotService.sendMessage from "Generate message ID" on: opens the     *)
(* assistant message and calls session.send.                               *)
(***************************************************************************)
OpenMessage(modelId) ==
    /\ Room(1)
    /\ nextMsg' = nextMsg + 1
    /\ currentMessageId' = nextMsg + 1
    /\ toWebview' = Append(toWebview,
           [type |-> "addMessage", id |-> nextMsg + 1, role |-> "assistant",
            content |-> <<>>, model |-> modelId])
    /\ termSinceOpen' = 0
    /\ genOpen' = TRUE
    /\ UNCHANGED <<submitted, abortedId>>

(***************************************************************************)
(* AIChatViewProvider._handleMessage: the handler of one webview message,  *)
(* up to its first await.                                                  *)
(***************************************************************************)
DispatchSendMessage(m) ==
    /\ Len(tasks) < MaxTasks
    /\ IF session = NoSession
       THEN /\ tasks' = Append(tasks, [kind |-> "sendMessage", pc |-> "createSession",
                                       modelId |-> m.modelId, sid |-> NoSession])
            /\ UNCHANGED <<nextMsg, currentMessageId, toWebview, histVars>>
       ELSE /\ OpenMessage(m.modelId)
            /\ tasks' = Append(tasks, [kind |-> "sendMessage", pc |-> "send",
                                       modelId |-> m.modelId, sid |-> session])
    /\ UNCHANGED <<webview, session, currentModel, pendingToolCalls, liveSessions,
                   nextSession>>

DispatchStopGeneration ==
    /\ Len(tasks) < MaxTasks
    /\ tasks' = Append(tasks, [kind |-> "stopGeneration", pc |-> "abort",
                               modelId |-> NoModel, sid |-> session])
    /\ abortedId' = currentMessageId
    /\ UNCHANGED <<svcVars, toWebview, termSinceOpen, genOpen, submitted>>

newSession ==
    /\ Room(1)
    /\ session' = NoSession
    /\ currentMessageId' = NoId
    /\ toWebview' = Append(toWebview, [type |-> "clearHistory"])
    /\ UNCHANGED <<webview, currentModel, pendingToolCalls, liveSessions,
                   nextSession, nextMsg, tasks, histVars>>

Dispatch ==
    /\ webview
    /\ toHost # <<>>
    /\ LET m == Head(toHost) IN
       /\ CASE m.type = "sendMessage" -> DispatchSendMessage(m)
            [] m.type = "stopGeneration" -> DispatchStopGeneration
            [] m.type = "newChat" -> newSession
       /\ last' = NoEvent
    /\ toHost' = Tail(toHost)
    /\ UNCHANGED <<appVars, replayVars>>

(***************************************************************************)
(* Continuations of the suspended handlers.                                *)
(***************************************************************************)
createSessionDone(i) ==
    /\ tasks[i].pc = "createSession"
    /\ nextSession < MaxSessions
    /\ session' = nextSession + 1
    /\ nextSession' = nextSession + 1
    /\ liveSessions' = liveSessions \cup {nextSession + 1}
    /\ currentModel' = tasks[i].modelId
    /\ OpenMessage(tasks[i].modelId)
    /\ tasks' = [tasks EXCEPT ![i].pc = "send", ![i].sid = nextSession + 1]
    /\ last' = NoEvent
    /\ UNCHANGED <<webview, pendingToolCalls, toHost, appVars>>

createSessionFailed(i) ==
    /\ tasks[i].pc = "createSession"
    /\ Room(1)
    /\ toWebview' = Append(toWebview, [type |-> "error",
                                       message |-> Lit("createSession failed")])
    /\ genOpen' = FALSE
    /\ tasks' = RemoveAt(tasks, i)
    /\ last' = NoEvent
    /\ UNCHANGED <<svcVars, toHost, appVars, termSinceOpen, submitted, abortedId>>

sendDone(i) ==
    /\ tasks[i].pc = "send"
    /\ tasks' = RemoveAt(tasks, i)
    /\ last' = NoEvent
    /\ UNCHANGED <<svcVars, toHost, toWebview, appVars, histVars>>

sendFailed(i) ==
    /\ tasks[i].pc = "send"
    /\ Room(1)
    /\ toWebview' = Append(toWebview, [type |-> "error",
                                       message |-> Lit("send failed")])
    /\ genOpen' = FALSE
    /\ tasks' = RemoveAt(tasks, i)
    /\ last' = NoEvent
    /\ UNCHANGED <<svcVars, toHost, appVars, termSinceOpen, submitted, abortedId>>

abortDone(i) ==
    /\ tasks[i].pc = "abort"
    /\ Room(1)
    /\ toWebview' = Append(toWebview, [type |-> "generationComplete"])
    /\ genOpen' = FALSE
    /\ tasks' = RemoveAt(tasks, i)
    /\ last' = NoEvent
    /\ UNCHANGED <<svcVars, toHost, appVars, termSinceOpen, submitted, abortedId>>

abortFailed(i) ==
    /\ tasks[i].pc = "abort"
    /\ tasks[i].sid # NoSession
    /\ tasks' = RemoveAt(tasks, i)
    /\ last' = NoEvent
    /\ UNCHANGED <<svcVars, toHost, toWebview, appVars, histVars>>

TaskStep ==
    \E i \in 1..Len(tasks) :
        /\ \/ createSessionDone(i)
           \/ createSessionFailed(i)
           \/ sendDone(i)
           \/ sendFailed(i)
           \/ abortDone(i)
           \/ abortFailed(i)
        /\ UNCHANGED replayVars

(***************************************************************************)
(* CopilotService.resumeSession: the transcript rebuilt from the event log *)
(* of a session.  A turn's toolExecutions is a Map; it is kept as the      *)
(* sequence of its entries in insertion order.                             *)
(***************************************************************************)
Whitespace == {" ", "\n", "\t"}

IsBlank(s) == \A i \in 1..Len(s) : s[i] \in Whitespace

SelectedModel(e) == IF "selectedModel" \in DOMAIN e THEN e.selectedModel ELSE NoModel

NewTurn(userMessage, model) ==
    [userMessage |-> userMessage, assistantMessages |-> <<>>,
     toolExecutions |-> <<>>, activeModel |-> model]

ExecIndex(execs, callId) ==
    IF \E i \in 1..Len(execs) : execs[i].id = callId
    THEN CHOOSE i \in 1..Len(execs) : execs[i].id = callId
    ELSE 0

(* Variant of SetExec that keeps the first start recorded for a call.      *)
SetExec_KeepFirst(execs, callId, field, e) ==
    LET withEntry == IF ExecIndex(execs, callId) = 0
                     THEN Append(execs, [id |-> callId, start |-> NoEvent,
                                         complete |-> NoEvent])
                     ELSE execs
        i == ExecIndex(withEntry, callId)
    IN IF field = "start" /\ withEntry[i].start # NoEvent THEN withEntry
       ELSE [withEntry EXCEPT ![i] = [@ EXCEPT ![field] = e]]

SetExec(execs, callId, field, e) ==
    LET withEntry == IF ExecIndex(execs, callId) = 0
                     THEN Append(execs, [id |-> callId, start |-> NoEvent,
                                         complete |-> NoEvent])
                     ELSE execs
        i == ExecIndex(withEntry, callId)
    IN [withEntry EXCEPT ![i] = [@ EXCEPT ![field] = e]]

(* Variant of turnsStep in which a new turn inherits the executions of the  *)
(* turn before it.                                                         *)
turnsStep_SessionTable(st, e) ==
    LET turns == st.turns
        n == Len(turns)
    IN
    CASE e.type = "session.model_change" ->
           [st EXCEPT !.currentSessionModel = e.newModel]
      [] e.type = "user.message" ->
           [st EXCEPT !.turns = Append(turns,
               [NewTurn(e, st.currentSessionModel) EXCEPT !.toolExecutions =
                   IF n = 0 THEN <<>> ELSE turns[n].toolExecutions])]
      [] e.type = "assistant.message" ->
           LET opened == IF n = 0
                         THEN <<NewTurn(NoEvent, st.currentSessionModel)>>
                         ELSE turns
               k == Len(opened)
           IN [st EXCEPT !.turns =
                  [opened EXCEPT ![k].assistantMessages = Append(@, e)]]
      [] e.type = "assistant.usage" ->
           IF e.model # NoModel /\ n > 0
           THEN [st EXCEPT !.turns = [turns EXCEPT ![n].activeModel = e.model]]
           ELSE st
      [] e.type = "tool.execution_start" ->
           IF n > 0 /\ ~isInternalTool(e.toolName)
           THEN [st EXCEPT !.turns = [turns EXCEPT ![n].toolExecutions =
                                         SetExec(@, e.toolCallId, "start", e)]]
           ELSE st
      [] e.type = "tool.execution_complete" ->
           IF n > 0
           THEN [st EXCEPT !.turns = [turns EXCEPT ![n].toolExecutions =
                                         SetExec(@, e.toolCallId, "complete", e)]]
           ELSE st
      [] OTHER -> st

turnsStep(st, e) ==
    LET turns == st.turns
        n == Len(turns)
    IN
    CASE e.type = "session.model_change" ->
           [st EXCEPT !.currentSessionModel = e.newModel]
      [] e.type = "user.message" ->
           [st EXCEPT !.turns = Append(turns, NewTurn(e, st.currentSessionModel))]
      [] e.type = "assistant.message" ->
           LET opened == IF n = 0
                         THEN <<NewTurn(NoEvent, st.currentSessionModel)>>
                         ELSE turns
               k == Len(opened)
           IN [st EXCEPT !.turns =
                  [opened EXCEPT ![k].assistantMessages = Append(@, e)]]
      [] e.type = "assistant.usage" ->
           IF e.model # NoModel /\ n > 0
           THEN [st EXCEPT !.turns = [turns EXCEPT ![n].activeModel = e.model]]
           ELSE st
      [] e.type = "tool.execution_start" ->
           IF n > 0 /\ ~isInternalTool(e.toolName)
           THEN [st EXCEPT !.turns = [turns EXCEPT ![n].toolExecutions =
                                         SetExec(@, e.toolCallId, "start", e)]]
           ELSE st
      [] e.type = "tool.execution_complete" ->
           IF n > 0
           THEN [st EXCEPT !.turns = [turns EXCEPT ![n].toolExecutions =
                                         SetExec(@, e.toolCallId, "complete", e)]]
           ELSE st
      [] OTHER -> st

(* Variant of groupTurns in which a model change also becomes the model   *)
(* of the turn that is open.                                               *)
RECURSIVE groupTurns_ChangeSetsTurn(_, _)
groupTurns_ChangeSetsTurn(st, events) ==
    IF events = <<>> THEN st
    ELSE LET e == Head(events)
             s1 == turnsStep(st, e)
             n == Len(s1.turns)
             s2 == IF e.type = "session.model_change" /\ n > 0
                   THEN [s1 EXCEPT !.turns = [s1.turns EXCEPT ![n].activeModel = e.newModel]]
                   ELSE s1
         IN groupTurns_ChangeSetsTurn(s2, Tail(events))

(* Variant of groupTurns that stops reading the log at the first event of  *)
(* a type it does not know.                                                *)
RECURSIVE groupTurns_StopAtUnknown(_, _)
groupTurns_StopAtUnknown(st, events) ==
    IF events = <<>> \/ Head(events).type = "session.info" THEN st
    ELSE groupTurns_StopAtUnknown(turnsStep(st, Head(events)), Tail(events))

RECURSIVE groupTurns(_, _)
groupTurns(st, events) ==
    IF events = <<>> THEN st
    ELSE groupTurns(turnsStep(st, Head(events)), Tail(events))

execToolEvent(execution) ==
    LET start == execution.start
        complete == execution.complete
    IN IF complete # NoEvent
       THEN createToolEvent(
                [toolCallId |-> complete.toolCallId, toolName |-> start.toolName,
                 arguments |-> start.arguments, result |-> complete.result,
                 error |-> complete.error],
                IF complete.success THEN "success" ELSE "error")
       ELSE createToolEvent(
                [toolCallId |-> start.toolCallId, toolName |-> start.toolName,
                 arguments |-> start.arguments, result |-> UndefRec,
                 error |-> UndefRec], "loading")

(* Variant of turnToolEvents that drops executions without a completion.   *)
RECURSIVE turnToolEvents_CompletedOnly(_)
turnToolEvents_CompletedOnly(execs) ==
    IF execs = <<>> THEN <<>>
    ELSE (IF Head(execs).start # NoEvent /\ Head(execs).complete # NoEvent
          THEN <<execToolEvent(Head(execs))>> ELSE <<>>)
         \o turnToolEvents_CompletedOnly(Tail(execs))

RECURSIVE turnToolEvents(_)
turnToolEvents(execs) ==
    IF execs = <<>> THEN <<>>
    ELSE (IF Head(execs).start # NoEvent THEN <<execToolEvent(Head(execs))>> ELSE <<>>)
         \o turnToolEvents(Tail(execs))

(* Variant of messageModel that prefers the service's current model.       *)
messageModel_ServiceFirst(turn, svcModel) ==
    IF svcModel # NoModel THEN svcModel ELSE turn.activeModel

messageModel(turn, svcModel) ==
    IF turn.activeModel # NoModel THEN turn.activeModel ELSE svcModel

(* Variant of turnMessages that attaches the tool executions to the last   *)
(* assistant message of the turn only.                                     *)
turnMessages_ToolsOnLast(turn, svcModel) ==
    (IF turn.userMessage # NoEvent
     THEN <<[role |-> "user", content |-> Or(turn.userMessage.content, <<>>),
             model |-> NoModel, toolEvents |-> <<>>]>>
     ELSE <<>>)
    \o [i \in 1..Len(turn.assistantMessages) |->
           [role |-> "assistant",
            content |-> Or(turn.assistantMessages[i].content, <<>>),
            model |-> messageModel(turn, svcModel),
            toolEvents |-> IF i = Len(turn.assistantMessages)
                           THEN turnToolEvents(turn.toolExecutions) ELSE <<>>]]

turnMessages(turn, svcModel) ==
    (IF turn.userMessage # NoEvent
     THEN <<[role |-> "user", content |-> Or(turn.userMessage.content, <<>>),
             model |-> NoModel, toolEvents |-> <<>>]>>
     ELSE <<>>)
    \o [i \in 1..Len(turn.assistantMessages) |->
           [role |-> "assistant",
            content |-> Or(turn.assistantMessages[i].content, <<>>),
            model |-> messageModel(turn, svcModel),
            toolEvents |-> turnToolEvents(turn.toolExecutions)]]

(* Variant of buildMessages that emits the turns last to first.            *)
RECURSIVE buildMessages_Reversed(_, _)
buildMessages_Reversed(turns, svcModel) ==
    IF turns = <<>> THEN <<>>
    ELSE buildMessages_Reversed(Tail(turns), svcModel)
         \o turnMessages(Head(turns), svcModel)

RECURSIVE buildMessages(_, _)
buildMessages(turns, svcModel) ==
    IF turns = <<>> THEN <<>>
    ELSE turnMessages(Head(turns), svcModel) \o buildMessages(Tail(turns), svcModel)

RECURSIVE lastUsedModelOf(_)
lastUsedModelOf(msgs) ==
    IF msgs = <<>> THEN NoModel
    ELSE LET m == msgs[Len(msgs)] IN
         IF m.role = "assistant" /\ m.model # NoModel THEN m.model
         ELSE lastUsedModelOf(SubSeq(msgs, 1, Len(msgs) - 1))

WithIds(msgs) == [i \in 1..Len(msgs) |->
                     [id |-> -(i + 1), role |-> msgs[i].role,
                      content |-> msgs[i].content, model |-> msgs[i].model,
                      toolEvents |-> msgs[i].toolEvents]]

(* Variant of validMessages that keeps every message.                      *)
validMessages_NoFilter(msgs) == msgs

validMessages(msgs) == SelectSeq(msgs, LAMBDA m : ~IsBlank(m.content))

reconstruct(events, svcModel) ==
    LET originalModel == SelectedModel(events[1])
        st == groupTurns([turns |-> <<>>, currentSessionModel |-> originalModel],
                         events)
        msgs == WithIds(buildMessages(st.turns, svcModel))
    IN [messages |-> validMessages(msgs), lastUsedModel |-> lastUsedModelOf(msgs)]

(***************************************************************************)
(* resumeSession followed by AIChatViewProvider._handleResumeSession, for  *)
(* the session whose log is `log`.  client.resumeSession() or              *)
(* session.getMessages() may reject; reading events[0] of an empty log     *)
(* throws a TypeError.  resumeSession rethrows and the provider reports    *)
(* the error.                                                              *)
(***************************************************************************)
ResumeOutcomes == {"returned", "resumeRejected", "getMessagesRejected"}

resumeError(outcome) ==
    CASE outcome = "resumeRejected" -> Lit("resumeSession rejected")
      [] outcome = "getMessagesRejected" -> Lit("getMessages rejected")
      [] OTHER -> Lit("Cannot read properties of undefined")

(* Variant of resumePosts that hands the webview an empty transcript when  *)
(* the resume fails.                                                       *)
resumePosts_EmptyOnError(ok, outcome, r) ==
    IF ok
    THEN (IF r.lastUsedModel # NoModel
          THEN <<[type |-> "modelChanged", modelId |-> r.lastUsedModel]>>
          ELSE <<>>)
         \o <<[type |-> "sessionResumed", messages |-> r.messages]>>
    ELSE <<[type |-> "sessionResumed", messages |-> <<>>],
           [type |-> "error", message |-> resumeError(outcome)]>>

(* Variant of resumePosts that tells the webview of the last used model    *)
(* only when the webview shows another one.                                *)
resumePosts_OnlyWhenChanged(ok, outcome, r) ==
    IF ok
    THEN (IF r.lastUsedModel # NoModel /\ r.lastUsedModel # selectedModelId
          THEN <<[type |-> "modelChanged", modelId |-> r.lastUsedModel]>>
          ELSE <<>>)
         \o <<[type |-> "sessionResumed", messages |-> r.messages]>>
    ELSE <<[type |-> "error", message |-> resumeError(outcome)]>>

resumePosts(ok, outcome, r) ==
    IF ok
    THEN (IF r.lastUsedModel # NoModel
          THEN <<[type |-> "modelChanged", modelId |-> r.lastUsedModel]>>
          ELSE <<>>)
         \o <<[type |-> "sessionResumed", messages |-> r.messages]>>
    ELSE <<[type |-> "error", message |-> resumeError(outcome)]>>

resumeSessionCall(limit) ==
    /\ webview
    /\ transcript.runs < limit
    /\ Room(2)
    /\ \E outcome \in ResumeOutcomes :
         LET fetched == outcome = "returned"
             ok == fetched /\ log # <<>>
             r == IF ok THEN reconstruct(log, currentModel)
                  ELSE [messages |-> <<>>, lastUsedModel |-> NoModel]
         IN /\ IF outcome = "resumeRejected"
               THEN /\ liveSessions' = liveSessions \ {session}
                    /\ UNCHANGED <<session, nextSession>>
               ELSE /\ session' = nextSession + 1
                    /\ nextSession' = nextSession + 1
                    /\ liveSessions' = (liveSessions \ {session}) \cup {nextSession + 1}
            /\ transcript' = [ok |-> ok, done |-> TRUE, messages |-> r.messages,
                              fetched |-> fetched, runs |-> transcript.runs + 1,
                              at |-> pos, prevOk |-> transcript.ok,
                              prevMessages |-> transcript.messages]
            /\ currentModel' = IF r.lastUsedModel # NoModel THEN r.lastUsedModel
                               ELSE currentModel
            /\ toWebview' = toWebview \o resumePosts(ok, outcome, r)
    /\ last' = NoEvent
    /\ UNCHANGED <<webview, currentMessageId, pendingToolCalls, nextMsg, tasks, toHost,
                   appVars, histVars, log, pos, formatted>>

resumeSession == resumeSessionCall(1)


(***************************************************************************)
(* Webview: InputArea.handleSubmit -> App.handleSend, and the buttons.     *)
(***************************************************************************)
handleSubmit ==
    /\ webview
    /\ ~isGenerating
    /\ submitted < MaxMsgs
    /\ submitted' = submitted + 1
    /\ IF showWelcomeScreen
       THEN /\ Len(toHost) + 2 <= MaxHostQueue
            /\ messages' = <<[id |-> UserId, role |-> "user", content |-> UserText,
                              model |-> NoModel, toolEvents |-> <<>>]>>
            /\ shouldHonorClearHistory' = FALSE
            /\ showWelcomeScreen' = FALSE
            /\ toHost' = toHost \o <<[type |-> "newChat"],
                                     [type |-> "sendMessage", modelId |-> selectedModelId]>>
       ELSE /\ Len(toHost) + 1 <= MaxHostQueue
            /\ messages' = Append(messages,
                   [id |-> UserId, role |-> "user", content |-> UserText,
                    model |-> NoModel, toolEvents |-> <<>>])
            /\ toHost' = Append(toHost,
                   [type |-> "sendMessage", modelId |-> selectedModelId])
            /\ UNCHANGED <<shouldHonorClearHistory, showWelcomeScreen>>
    /\ last' = NoEvent
    /\ UNCHANGED <<svcVars, tasks, toWebview, isGenerating, streamingMessageId,
                   selectedModelId, termSinceOpen, genOpen, abortedId, replayVars>>

handleStop ==
    /\ webview
    /\ isGenerating
    /\ Len(toHost) + 1 <= MaxHostQueue
    /\ toHost' = Append(toHost, [type |-> "stopGeneration"])
    /\ last' = NoEvent
    /\ UNCHANGED <<svcVars, tasks, toWebview, appVars, histVars, replayVars>>

(***************************************************************************)
(* App.handleMessage: the reducer applied to one extension message.        *)
(* handleMessage is memoised with an empty dependency list, so inside it   *)
(* shouldHonorClearHistory is the value of the first render.               *)
(***************************************************************************)
HonorSeenByHandler == TRUE

IndexOfCall(evs, callId) ==
    IF \E i \in 1..Len(evs) : evs[i].toolCallId = callId
    THEN CHOOSE i \in 1..Len(evs) :
             /\ evs[i].toolCallId = callId
             /\ \A j \in 1..(i - 1) : evs[j].toolCallId # callId
    ELSE 0

streamChunk(m, msg) ==
    IF msg.id = m.messageId THEN [msg EXCEPT !.content = msg.content \o m.content]
    ELSE msg

streamEnd(m, msg) == msg

toolEvent(m, msg) ==
    IF msg.id = m.messageId
    THEN LET eventIndex == IndexOfCall(msg.toolEvents, m.event.toolCallId) IN
         IF eventIndex > 0
         THEN [msg EXCEPT !.toolEvents[eventIndex] = m.event]
         ELSE [msg EXCEPT !.toolEvents = Append(msg.toolEvents, m.event)]
    ELSE msg

handleMessageMessages(m) ==
    CASE m.type = "addMessage" ->
           Append(messages, [id |-> m.id, role |-> m.role, content |-> m.content,
                             model |-> m.model, toolEvents |-> <<>>])
      [] m.type = "streamChunk" -> [i \in 1..Len(messages) |-> streamChunk(m, messages[i])]
      [] m.type = "streamEnd" -> [i \in 1..Len(messages) |-> streamEnd(m, messages[i])]
      [] m.type = "toolEvent" -> [i \in 1..Len(messages) |-> toolEvent(m, messages[i])]
      [] m.type = "clearHistory" -> IF HonorSeenByHandler THEN <<>> ELSE messages
      [] m.type = "sessionResumed" ->
           IF Len(m.messages) > 0 THEN m.messages ELSE messages
      [] OTHER -> messages

handleMessageGenerating(m) ==
    CASE m.type = "addMessage" -> IF m.role = "assistant" THEN TRUE ELSE isGenerating
      [] m.type \in {"generationComplete", "error"} -> FALSE
      [] OTHER -> isGenerating

handleMessageStreaming(m) ==
    CASE m.type = "addMessage" -> IF m.role = "assistant" THEN m.id ELSE streamingMessageId
      [] m.type \in {"streamEnd", "generationComplete"} -> NoId
      [] OTHER -> streamingMessageId

handleMessageModel(m) ==
    CASE m.type = "modelChanged" -> m.modelId
      [] m.type = "sessionResumed" ->
           IF lastUsedModelOf(m.messages) # NoModel THEN lastUsedModelOf(m.messages)
           ELSE selectedModelId
      [] OTHER -> selectedModelId

handleMessage ==
    /\ toWebview # <<>>
    /\ LET m == Head(toWebview) IN
       /\ messages' = handleMessageMessages(m)
       /\ isGenerating' = handleMessageGenerating(m)
       /\ streamingMessageId' = handleMessageStreaming(m)
       /\ shouldHonorClearHistory' =
              IF m.type = "clearHistory" THEN TRUE ELSE shouldHonorClearHistory
       /\ selectedModelId' = handleMessageModel(m)
       /\ showWelcomeScreen' =
              IF m.type = "sessionResumed" THEN FALSE ELSE showWelcomeScreen
       /\ last' = NoEvent
    /\ toWebview' = Tail(toWebview)
    /\ UNCHANGED <<svcVars, tasks, toHost, histVars, replayVars>>

System ==
    \/ resolveWebviewView /\ UNCHANGED replayVars
    \/ Dispatch
    \/ TaskStep
    \/ handleSubmit
    \/ handleStop
    \/ handleMessage

Next ==
    \/ System
    \/ BackendEvent(TextEvents)

Spec == Init /\ [][Next]_vars

NextTools ==
    \/ System
    \/ BackendEvent(ToolEvents)

SpecTools == Init /\ [][NextTools]_vars

(***************************************************************************)
(* A generation that streams text and starts tools.                        *)
(***************************************************************************)
MixedEvents == DeltaEvents \cup MessageEvents \cup ToolStartEvents \cup IdleEvents

NextMixed ==
    \/ System
    \/ BackendEvent(MixedEvents)

SpecMixed == Init /\ [][NextMixed]_vars

(***************************************************************************)
(* Fairness: the webview's message listener handles every message posted   *)
(* to it.                                                                  *)
(***************************************************************************)
FairSpec == Spec /\ WF_vars(handleMessage)

(***************************************************************************)
(* Replay of one session's event log: the events reach the live handler in *)
(* log order while a message is open, and resumeSession rebuilds the       *)
(* transcript from the same log.                                           *)
(***************************************************************************)
ReplayToolNames == {"view", "report_intent", "suggest_mode"}

OtherPathArgs == [EmptyArgs EXCEPT !.path = <<"g">>]

ReplayEvents ==
    [type : {"session.start"}, selectedModel : ModelIds]
    \cup OtherEvents
    \cup [type : {"user.message"}, content : {UserText}]
    \cup [type : {"assistant.message"}, content : {<<>>, <<"a">>}]
    \cup [type : {"tool.execution_start"}, toolCallId : CallIds,
          toolName : ReplayToolNames, arguments : ToolArgs]
    \cup [type : {"tool.execution_start"}, toolCallId : CallIds,
          toolName : {"edit"}, arguments : {OtherPathArgs}]
    \cup ToolCompleteEvents

RECURSIVE LogsUpTo(_)
LogsUpTo(n) ==
    IF n = 0 THEN {<<>>}
    ELSE LogsUpTo(n - 1)
         \cup {Append(l, e) : l \in {x \in LogsUpTo(n - 1) : Len(x) = n - 1},
                              e \in ReplayEvents}

InitReplay ==
    /\ webview = TRUE
    /\ session = 1
    /\ currentMessageId = 1
    /\ currentModel = DefaultModel
    /\ pendingToolCalls = <<>>
    /\ liveSessions = {1}
    /\ nextSession = 1
    /\ nextMsg = 1
    /\ tasks = <<>>
    /\ toHost = <<>>
    /\ toWebview = <<>>
    /\ messages = <<[id |-> 1, role |-> "assistant", content |-> <<>>,
                     model |-> DefaultModel, toolEvents |-> <<>>]>>
    /\ isGenerating = TRUE
    /\ streamingMessageId = 1
    /\ showWelcomeScreen = FALSE
    /\ shouldHonorClearHistory = TRUE
    /\ selectedModelId = DefaultModel
    /\ last = NoEvent
    /\ termSinceOpen = 0
    /\ genOpen = TRUE
    /\ submitted = 1
    /\ abortedId = NoId
    /\ log \in LogsUpTo(MaxLog)
    /\ pos = 0
    /\ transcript = NoTranscript
    /\ formatted = NoFormat

ReplayEvent ==
    /\ pos < Len(log)
    /\ \E sid \in liveSessions : handleEvent(sid, log[pos + 1])
    /\ pos' = pos + 1
    /\ UNCHANGED <<log, transcript, formatted>>

NextReplay ==
    \/ ReplayEvent
    \/ handleMessage
    \/ resumeSession

SpecReplay == InitReplay /\ [][NextReplay]_vars

(***************************************************************************)
(* The state a replay starts in is a state of the running extension.       *)
(***************************************************************************)
ReplayStart ==
    /\ session = 1 /\ currentMessageId = 1 /\ currentModel = DefaultModel
    /\ liveSessions = {1} /\ nextSession = 1 /\ nextMsg = 1
    /\ tasks = <<>> /\ toHost = <<>> /\ toWebview = <<>>
    /\ messages = <<[id |-> 1, role |-> "assistant", content |-> <<>>,
                     model |-> DefaultModel, toolEvents |-> <<>>]>>
    /\ isGenerating /\ streamingMessageId = 1 /\ ~showWelcomeScreen
    /\ shouldHonorClearHistory /\ last = NoEvent /\ termSinceOpen = 0 /\ genOpen
    /\ submitted = 1 /\ abortedId = NoId /\ pendingToolCalls = <<>>

(***************************************************************************)
(* Resuming a stored session.  getMessages() returns the session's log: a  *)
(* session.start event followed by the events of its turns.  The service   *)
(* is in the state it has after opening its first message.                 *)
(***************************************************************************)
StartEvents == [type : {"session.start"}, selectedModel : {DefaultModel, NoModel}]

UserMessageEvents == [type : {"user.message"}, content : {<<"q">>, <<"r">>, <<" ">>}]

AssistantMessageEvents == [type : {"assistant.message"}, content : {<<>>, <<"a">>}]

ModelChangeEvents == [type : {"session.model_change"}, newModel : {"m2"}]

UsageEvents == [type : {"assistant.usage"}, model : ModelIds]

ModelLogEvents ==
    UserMessageEvents \cup AssistantMessageEvents \cup ModelChangeEvents
    \cup UsageEvents

TurnLogEvents ==
    [type : {"user.message"}, content : {<<"q">>}]
    \cup AssistantMessageEvents
    \cup ModelChangeEvents
    \cup [type : {"tool.execution_start"}, toolCallId : CallIds,
          toolName : ToolNames, arguments : ToolArgs]
    \cup ToolCompleteEvents

RECURSIVE BodiesUpTo(_, _)
BodiesUpTo(events, n) ==
    IF n = 0 THEN {<<>>}
    ELSE BodiesUpTo(events, n - 1)
         \cup {Append(l, e) : l \in {x \in BodiesUpTo(events, n - 1) : Len(x) = n - 1},
                              e \in events}

StoredLogs(events) ==
    {<<s>> \o b : s \in StartEvents, b \in BodiesUpTo(events, MaxBody)}

InitResume(events) ==
    /\ webview = TRUE
    /\ session = 1
    /\ currentMessageId = 1
    /\ currentModel = DefaultModel
    /\ pendingToolCalls = <<>>
    /\ liveSessions = {1}
    /\ nextSession = 1
    /\ nextMsg = 1
    /\ tasks = <<>>
    /\ toHost = <<>>
    /\ toWebview = <<>>
    /\ messages = <<[id |-> 1, role |-> "assistant", content |-> <<>>,
                     model |-> DefaultModel, toolEvents |-> <<>>]>>
    /\ isGenerating = TRUE
    /\ streamingMessageId = 1
    /\ showWelcomeScreen = FALSE
    /\ shouldHonorClearHistory = TRUE
    /\ selectedModelId = DefaultModel
    /\ last = NoEvent
    /\ termSinceOpen = 0
    /\ genOpen = TRUE
    /\ submitted = 1
    /\ abortedId = NoId
    /\ log \in StoredLogs(events)
    /\ pos = 0
    /\ transcript = NoTranscript
    /\ formatted = NoFormat

InitResumeModels == InitResume(ModelLogEvents)

InitResumeTurns == InitResume(TurnLogEvents)

NextResume ==
    \/ resumeSession
    \/ handleMessage

SpecResume == InitResumeModels /\ [][NextResume]_vars

SpecResumeTurns == InitResumeTurns /\ [][NextResume]_vars

(***************************************************************************)
(* The same stored session resumed more than once (the user picks it in    *)
(* the history list again).                                                *)
(***************************************************************************)
InitResumeAgain == InitResumeModels /\ Len(log) <= 1 + MaxRepeatBody

NextResumeAgain ==
    \/ resumeSessionCall(MaxResumes)
    \/ handleMessage

SpecResumeAgain == InitResumeAgain /\ [][NextResumeAgain]_vars

(***************************************************************************)
(* createToolEvent on its own: one call with a payload the backend may     *)
(* send, before the webview is attached.                                   *)
(***************************************************************************)
Text(n) == [i \in 1..n |-> "x"]

FormatNames == {"view", "write_file", "edit", "run_command", "grep_search",
                "list_dir", "web_search", "my_tool", NoName, NumberName}

FormatArgs ==
    {UndefRec, EmptyArgs}
    \cup {[EmptyArgs EXCEPT !.path = v] : v \in {<<"d", "/", "f">>, NumberValue}}
    \cup {[EmptyArgs EXCEPT !.command = v] :
             v \in {Text(CmdLimit), Text(CmdLimit + 1), NumberValue}}
    \cup {[EmptyArgs EXCEPT !.query = v] :
             v \in {Text(QueryLimit), Text(QueryLimit + 1), Text(QueryLimit + 4)}}
    \cup {[EmptyArgs EXCEPT !.content = v] : v \in {<<"a", "\n", "b">>, NumberValue}}

FormatResults ==
    {UndefRec,
     [EmptyResult EXCEPT !.content = <<"a", "\n", "b">>],
     [EmptyResult EXCEPT !.content = NumberValue],
     [EmptyResult EXCEPT !.linesAdded = 2]}

FormatErrors == {UndefRec, [message |-> <<"b", "o", "o", "m">>]}

FormatStatuses == {"loading", "success", "error"}

FormatCalls ==
    {[data |-> [toolCallId |-> "c1", toolName |-> n, arguments |-> a,
                result |-> r, error |-> e],
      status |-> st, done |-> FALSE, raised |-> FALSE, event |-> NoEvent] :
        n \in FormatNames, a \in FormatArgs, r \in FormatResults,
        e \in FormatErrors, st \in FormatStatuses}

InitFormat ==
    /\ webview = FALSE
    /\ session = NoSession
    /\ currentMessageId = NoId
    /\ currentModel = NoModel
    /\ pendingToolCalls = <<>>
    /\ liveSessions = {}
    /\ nextSession = 0
    /\ nextMsg = 0
    /\ tasks = <<>>
    /\ toHost = <<>>
    /\ toWebview = <<>>
    /\ messages = <<>>
    /\ isGenerating = FALSE
    /\ streamingMessageId = NoId
    /\ showWelcomeScreen = TRUE
    /\ shouldHonorClearHistory = TRUE
    /\ selectedModelId = DefaultModel
    /\ last = NoEvent
    /\ termSinceOpen = -1
    /\ genOpen = FALSE
    /\ submitted = 0
    /\ abortedId = NoId
    /\ log = <<>>
    /\ pos = 0
    /\ transcript = NoTranscript
    /\ formatted \in FormatCalls

createToolEventCall ==
    /\ ~formatted.done
    /\ formatted' =
         [formatted EXCEPT
            !.done = TRUE,
            !.raised = createToolEventRaises(formatted.data, formatted.status),
            !.event = IF createToolEventRaises(formatted.data, formatted.status)
                      THEN NoEvent
                      ELSE createToolEvent(formatted.data, formatted.status)]
    /\ UNCHANGED <<svcVars, tasks, toHost, toWebview, appVars, last, histVars,
                   log, pos, transcript>>

NextFormat == createToolEventCall

SpecFormat == InitFormat /\ [][NextFormat]_vars

(***************************************************************************)
(* resumeSession with its awaits: client.resumeSession() resolves and the  *)
(* event handler is subscribed (834-838); listModels() and getMessages()   *)
(* are awaited (840-844); then the log is reconstructed.  The resumed      *)
(* session may deliver events in between.                                  *)
(***************************************************************************)
resumeSessionBegin ==
    /\ webview
    /\ transcript.runs < 1
    /\ Len(tasks) < MaxTasks
    /\ session' = nextSession + 1
    /\ nextSession' = nextSession + 1
    /\ liveSessions' = (liveSessions \ {session}) \cup {nextSession + 1}
    /\ tasks' = Append(tasks, [kind |-> "resumeSession", pc |-> "getMessages",
                               modelId |-> NoModel, sid |-> nextSession + 1])
    /\ last' = NoEvent
    /\ UNCHANGED <<webview, currentMessageId, currentModel, pendingToolCalls, nextMsg,
                   toHost, toWebview, appVars, histVars, replayVars>>

resumeSessionReturn ==
    \E i \in 1..Len(tasks) : \E outcome \in {"returned", "getMessagesRejected"} :
        LET fetched == outcome = "returned"
            ok == fetched /\ log # <<>>
            r == IF ok THEN reconstruct(log, currentModel)
                 ELSE [messages |-> <<>>, lastUsedModel |-> NoModel]
        IN /\ tasks[i].pc = "getMessages"
           /\ Room(2)
           /\ transcript' = [ok |-> ok, done |-> TRUE, messages |-> r.messages,
                             fetched |-> fetched, runs |-> transcript.runs + 1,
                             at |-> pos, prevOk |-> transcript.ok,
                             prevMessages |-> transcript.messages]
           /\ currentModel' = IF r.lastUsedModel # NoModel THEN r.lastUsedModel
                              ELSE currentModel
           /\ toWebview' = toWebview \o resumePosts(ok, outcome, r)
           /\ tasks' = RemoveAt(tasks, i)
           /\ last' = NoEvent
           /\ UNCHANGED <<webview, session, currentMessageId, pendingToolCalls,
                          liveSessions, nextSession, nextMsg, toHost, appVars,
                          histVars, log, pos, formatted>>

InitResumeLive == InitResumeModels /\ Len(log) <= 1 + MaxLiveBody

NextResumeLive ==
    \/ resumeSessionBegin
    \/ resumeSessionReturn
    \/ BackendEvent(DeltaEvents \cup IdleEvents)
    \/ handleMessage

SpecResumeLive == InitResumeLive /\ [][NextResumeLive]_vars

(***************************************************************************)
(* The header's New chat button while a conversation is running.           *)
(***************************************************************************)
handleNewChat ==
    /\ webview
    /\ Len(toHost) + 1 <= MaxHostQueue
    /\ toHost' = Append(toHost, [type |-> "newChat"])
    /\ showWelcomeScreen' = FALSE
    /\ last' = NoEvent
    /\ UNCHANGED <<svcVars, tasks, toWebview, messages, isGenerating,
                   streamingMessageId, shouldHonorClearHistory, selectedModelId,
                   histVars, replayVars>>

NextSessions ==
    \/ System
    \/ handleNewChat
    \/ BackendEvent(DeltaEvents \cup IdleEvents)

SpecSessions == Init /\ [][NextSessions]_vars

(***************************************************************************)
(* Properties of the live stream controller and of the webview.            *)
(* A step that leaves last' equal to a backend event is a handleEvent step *)
(* for that event; a step that takes the head off toWebview is the         *)
(* webview's handleMessage for that message; a step that takes the head    *)
(* off toHost is the provider's dispatch of that message.                  *)
(***************************************************************************)
Handles(t) == last'.type = t /\ vars' # vars

WebviewConsumes(t) ==
    /\ toWebview # <<>>
    /\ Head(toWebview).type = t
    /\ toWebview' = Tail(toWebview)

HostReceives(t) ==
    /\ toHost # <<>>
    /\ Head(toHost).type = t
    /\ toHost' = Tail(toHost)

InternalNames == {"report_intent", "suggest_mode"}

(* C1: once an addMessage has been emitted for an assistant message,       *)
(* exactly one terminal idle or error event is processed before the next   *)
(* addMessage is emitted, so two messages are never open at once.          *)
C1_OneTerminalBetweenOpens ==
    [][nextMsg' # nextMsg => termSinceOpen \in {-1, 1}]_vars

(* C2: no second sendMessage reaches the service between the sendMessage   *)
(* that opened a message and the generationComplete or error that ends     *)
(* that generation.                                                        *)
C2_NoSendWhileOpen ==
    [][HostReceives("sendMessage") => ~genOpen]_vars

(* C3: when the webview has handled the streamEnd of a message, the text   *)
(* displayed for that message is the payload of the complete message, not  *)
(* the concatenation of the deltas.                                        *)
C3_FullTextWins ==
    [][WebviewConsumes("streamEnd") =>
         \A i \in 1..Len(messages') :
             messages'[i].id = Head(toWebview).messageId =>
                 messages'[i].content = Head(toWebview).content]_vars

(* C4: a delta handled while currentMessageId is null emits nothing to the *)
(* webview, and no message's text changes because of it.                   *)
C4_IdleDeltaDropped ==
    [][/\ (Handles("assistant.message_delta") /\ currentMessageId = NoId)
             => toWebview' = toWebview
       /\ (WebviewConsumes("streamChunk") /\ Head(toWebview).messageId = NoId)
             => messages' = messages]_vars

(* C5: a session.error event posts the error (or the default text) and     *)
(* then generationComplete and clears currentMessageId; and after any      *)
(* error event the webview eventually is not generating.                   *)
C5_ErrorEndsGeneration ==
    /\ [][Handles("session.error") =>
            /\ toWebview' = toWebview \o
                 <<[type |-> "error",
                    message |-> IF last'.message = Undef
                                THEN Lit("An error occurred during AI processing")
                                ELSE last'.message],
                   [type |-> "generationComplete"]>>
            /\ currentMessageId' = NoId]_vars
    /\ (last.type = "session.error") ~> ~isGenerating

C5_Witness ==
    /\ last.type = "session.error"
    /\ last.message = Undef
    /\ isGenerating
    /\ streamingMessageId # NoId
    /\ currentMessageId = NoId

(* C6: every session.idle event posts generationComplete and leaves        *)
(* currentMessageId null, whatever the state before.                       *)
C6_IdleClosesMessage ==
    [][Handles("session.idle") =>
         /\ toWebview' = Append(toWebview, [type |-> "generationComplete"])
         /\ currentMessageId' = NoId]_vars

C6_Witness ==
    /\ last.type = "session.idle"
    /\ termSinceOpen = 1
    /\ currentMessageId = NoId
    /\ isGenerating
    /\ toWebview # <<>>
    /\ toWebview[Len(toWebview)].type = "generationComplete"

(* C7: an assistant.message event posts streamEnd for the open message and *)
(* leaves currentMessageId unchanged, and a delta that follows it is still *)
(* posted for the same message.                                            *)
C7_CompleteKeepsMessageOpen ==
    [][/\ Handles("assistant.message") =>
            /\ currentMessageId' = currentMessageId
            /\ toWebview' = Append(toWebview,
                   [type |-> "streamEnd", messageId |-> currentMessageId,
                    content |-> last'.content])
       /\ (last.type = "assistant.message" /\ Handles("assistant.message_delta")) =>
            /\ currentMessageId' = currentMessageId
            /\ toWebview' = Append(toWebview,
                   [type |-> "streamChunk", messageId |-> currentMessageId,
                    content |-> last'.deltaContent])]_vars

C7_Witness ==
    /\ last.type = "assistant.message_delta"
    /\ currentMessageId # NoId
    /\ Len(toWebview) = 2
    /\ toWebview[1].type = "streamEnd"
    /\ toWebview[2].type = "streamChunk"
    /\ toWebview[2].messageId = currentMessageId
    /\ toWebview[1].messageId = currentMessageId

(* C8: a tool.execution_complete whose toolCallId has no cached start      *)
(* posts nothing and leaves the pairing table and currentMessageId         *)
(* unchanged.                                                              *)
C8_UnpairedCompleteDropped ==
    [][(Handles("tool.execution_complete")
          /\ last'.toolCallId \notin DOMAIN pendingToolCalls) =>
         /\ toWebview' = toWebview
         /\ pendingToolCalls' = pendingToolCalls
         /\ currentMessageId' = currentMessageId]_vars

C8_Witness ==
    /\ last.type = "tool.execution_complete"
    /\ currentMessageId # NoId
    /\ genOpen
    /\ toWebview = <<>>
    /\ pendingToolCalls = <<>>
    /\ \E i \in 1..Len(messages) :
          /\ messages[i].toolEvents # <<>>
          /\ messages[i].toolEvents[1].status = "success"

(* C9: a tool.execution_complete whose toolCallId has a cached start posts *)
(* exactly one tool indicator built from the cached tool name and          *)
(* arguments with the completion's status, for the current message, and    *)
(* removes the cached start.                                               *)
C9_PairedCompleteMerged ==
    [][(Handles("tool.execution_complete")
          /\ last'.toolCallId \in DOMAIN pendingToolCalls) =>
         LET cached == pendingToolCalls[last'.toolCallId]
             status == IF last'.success THEN "success" ELSE "error"
         IN /\ Len(toWebview') = Len(toWebview) + 1
            /\ SubSeq(toWebview', 1, Len(toWebview)) = toWebview
            /\ LET m == toWebview'[Len(toWebview')] IN
               /\ m.type = "toolEvent"
               /\ m.messageId = currentMessageId
               /\ m.event.toolCallId = last'.toolCallId
               /\ m.event.toolName = cached.toolName
               /\ m.event.status = status
               /\ m.event.label = ToolLabel(cached.toolName, status, cached.arguments)
            /\ last'.toolCallId \notin DOMAIN pendingToolCalls'
            /\ pendingToolCalls' = [k \in (DOMAIN pendingToolCalls) \ {last'.toolCallId}
                                       |-> pendingToolCalls[k]]]_vars

C9_Witness ==
    /\ last.type = "tool.execution_complete"
    /\ ~last.success
    /\ pendingToolCalls = <<>>
    /\ currentMessageId # NoId
    /\ toWebview # <<>>
    /\ LET m == toWebview[Len(toWebview)] IN
       /\ m.type = "toolEvent"
       /\ m.messageId = currentMessageId
       /\ m.event.toolName = "view"
       /\ m.event.status = "error"

(* C10: no tool indicator posted to the webview, shown by the webview or   *)
(* held by a message of a reconstructed transcript carries an internal     *)
(* tool name.                                                              *)
NoInternalIn(msgs) ==
    \A i \in 1..Len(msgs) : \A j \in 1..Len(msgs[i].toolEvents) :
        msgs[i].toolEvents[j].toolName \notin InternalNames

C10_NoInternalToolIndicator ==
    /\ \A i \in 1..Len(toWebview) :
          /\ toWebview[i].type = "toolEvent" =>
                toWebview[i].event.toolName \notin InternalNames
          /\ toWebview[i].type = "sessionResumed" => NoInternalIn(toWebview[i].messages)
    /\ NoInternalIn(messages)
    /\ NoInternalIn(transcript.messages)

C10_Witness ==
    /\ transcript.ok
    /\ pos = Len(log)
    /\ \E i \in 1..Len(log) :
          /\ log[i].type = "tool.execution_start"
          /\ log[i].toolName = "suggest_mode"
    /\ \E i \in 1..Len(transcript.messages) :
          transcript.messages[i].toolEvents # <<>>
    /\ \E i \in 1..Len(messages) : messages[i].toolEvents # <<>>

(* C11: a delta handled after stopGeneration was called and before the     *)
(* next idle or error is posted for the message that was open when         *)
(* stopGeneration was called.                                              *)
C11_TrailingDeltaAfterAbort ==
    [][(Handles("assistant.message_delta") /\ abortedId # NoId) =>
         toWebview' = Append(toWebview,
             [type |-> "streamChunk", messageId |-> abortedId,
              content |-> last'.deltaContent])]_vars

(***************************************************************************)
(* Properties of the transcript rebuilt by resumeSession, stated over the  *)
(* positions of the log.  The turn of position i starts at the last        *)
(* user.message at or before i, or, when there is none, at the first       *)
(* assistant.message of the log.                                           *)
(***************************************************************************)
Max(S) == CHOOSE x \in S : \A y \in S : y <= x

Min(S) == CHOOSE x \in S : \A y \in S : x <= y

Blank(text) == \A n \in 1..Len(text) : text[n] \in {" ", "\n", "\t"}

Resumed == transcript.done /\ transcript.ok

ResumeStep == ~transcript.done /\ transcript'.done /\ transcript'.ok

LogIs(i, t) == log[i].type = t

UserAt(i) == {j \in 1..i : LogIs(j, "user.message")}

TurnStart(i) == IF UserAt(i) = {} THEN 0 ELSE Max(UserAt(i))

AssistantPositions == {j \in 1..Len(log) : LogIs(j, "assistant.message")}

FirstAssistant ==
    IF AssistantPositions = {} THEN Len(log) + 1 ELSE Min(AssistantPositions)

TurnOpen(i) == IF TurnStart(i) > 0 THEN TurnStart(i) ELSE FirstAssistant

SameTurn(j, i) == TurnStart(j) = TurnStart(i) /\ j >= TurnOpen(i)

RECURSIVE PositionsFrom(_, _, _)
PositionsFrom(i, types, blankToo) ==
    IF i > Len(log) THEN <<>>
    ELSE (IF log[i].type \in types /\ (blankToo \/ ~Blank(log[i].content))
          THEN <<i>> ELSE <<>>)
         \o PositionsFrom(i + 1, types, blankToo)

Sources == PositionsFrom(1, {"user.message", "assistant.message"}, FALSE)

TextsAt(positions) == [k \in 1..Len(positions) |-> log[positions[k]].content]

UserTexts(msgs) ==
    LET users == SelectSeq(msgs, LAMBDA m : m.role = "user")
    IN [k \in 1..Len(users) |-> users[k].content]

NoStrayAssistant == \A j \in AssistantPositions : TurnStart(j) > 0

(* C12 as stated: a log with N user.message events and no assistant        *)
(* message before the first of them yields exactly N user messages, in     *)
(* the order of their events.                                              *)
C12_AllUserMessagesKept ==
    (Resumed /\ NoStrayAssistant) =>
        UserTexts(transcript.messages) = TextsAt(PositionsFrom(1, {"user.message"}, TRUE))

(* C12, amended: the user messages of the transcript are the user.message  *)
(* events whose content is not blank, in the order of their events; a      *)
(* user.message with blank content yields no message.                      *)
C12_NonBlankUserMessagesKept ==
    Resumed =>
        UserTexts(transcript.messages) = TextsAt(PositionsFrom(1, {"user.message"}, FALSE))

C12_Witness ==
    /\ Resumed
    /\ NoStrayAssistant
    /\ UserTexts(transcript.messages) = << <<"q">>, <<"r">> >>
    /\ \E j \in 1..Len(log) : LogIs(j, "user.message") /\ Blank(log[j].content)

Seed == IF "selectedModel" \in DOMAIN log[1] THEN log[1].selectedModel ELSE NoModel

ChangesBefore(i) == {j \in 1..(i - 1) : LogIs(j, "session.model_change")}

SessionModelBefore(i) ==
    IF ChangesBefore(i) = {} THEN Seed ELSE log[Max(ChangesBefore(i))].newModel

NoUsage == \A j \in 1..Len(log) : ~LogIs(j, "assistant.usage")

AssistantOut(msgs) == {k \in 1..Len(msgs) : msgs[k].role = "assistant"}

(* C13: in a log with a seeded model, every assistant reply after a        *)
(* model change carries the changed model and every reply before it the    *)
(* prior model (usage events, which C14 treats, left aside).               *)
C13_ModelChangeAttributed ==
    (Resumed /\ Seed # NoModel /\ NoUsage) =>
        \A k \in AssistantOut(transcript.messages) :
            transcript.messages[k].model = SessionModelBefore(Sources[k])

UsageIn(i) ==
    {j \in 1..Len(log) : /\ SameTurn(j, i)
                         /\ LogIs(j, "assistant.usage")
                         /\ log[j].model # NoModel}

ChangesIn(i) == {j \in 1..Len(log) : SameTurn(j, i) /\ LogIs(j, "session.model_change")}

(* C14: an assistant reply of a turn that contains a usage event reporting *)
(* a model carries the model of the turn's last such usage event, whether  *)
(* or not the turn also contains a model change.                           *)
C14_UsageModelWins ==
    Resumed =>
        \A k \in AssistantOut(transcript.messages) :
            UsageIn(Sources[k]) # {} =>
                transcript.messages[k].model = log[Max(UsageIn(Sources[k]))].model

C14_Witness ==
    /\ Resumed
    /\ \E k \in AssistantOut(transcript.messages) :
         \E u1, u2 \in UsageIn(Sources[k]) : \E c \in ChangesIn(Sources[k]) :
            /\ u1 < u2
            /\ u2 < c
            /\ log[u1].model = "m2"
            /\ log[u2].model = "m1"
            /\ log[c].newModel = "m2"
            /\ transcript.messages[k].model = "m1"

FinalAssistantModel(msgs) == msgs[Max(AssistantOut(msgs))].model

(* C20: after a reconstruction that returns an assistant message, the      *)
(* service's current model and the modelChanged sent to the webview are    *)
(* the model of the final assistant message of the returned transcript.    *)
C20_LastUsedModelIsFinalReply ==
    [][(ResumeStep /\ AssistantOut(transcript'.messages) # {}) =>
         /\ currentModel' = FinalAssistantModel(transcript'.messages)
         /\ \E n \in 1..Len(toWebview') :
              toWebview'[n] = [type |-> "modelChanged",
                               modelId |-> FinalAssistantModel(transcript'.messages)]]_vars

StartsIn(i, c) ==
    {j \in 1..Len(log) : /\ SameTurn(j, i)
                         /\ LogIs(j, "tool.execution_start")
                         /\ log[j].toolCallId = c
                         /\ log[j].toolName \notin InternalNames}

CompletesIn(i, c) ==
    {j \in 1..Len(log) : /\ SameTurn(j, i)
                         /\ LogIs(j, "tool.execution_complete")
                         /\ log[j].toolCallId = c}

IndicatorsFor(msg, c) ==
    {n \in 1..Len(msg.toolEvents) : msg.toolEvents[n].toolCallId = c}

(* C15: the transcript holds exactly the user and assistant events with    *)
(* non-blank text, so no message has empty text and nothing stands in for  *)
(* an excluded message; tool indicators appear on assistant messages only. *)
C15_EmptyMessagesExcluded ==
    Resumed =>
        /\ Len(transcript.messages) = Len(Sources)
        /\ \A k \in 1..Len(transcript.messages) :
             /\ transcript.messages[k].content = log[Sources[k]].content
             /\ transcript.messages[k].content # <<>>
             /\ ~Blank(transcript.messages[k].content)
             /\ transcript.messages[k].toolEvents # <<>> =>
                    transcript.messages[k].role = "assistant"

C15_Witness ==
    /\ Resumed
    /\ Len(transcript.messages) > 0
    /\ \A k \in 1..Len(transcript.messages) : transcript.messages[k].toolEvents = <<>>
    /\ \E j \in AssistantPositions :
         /\ log[j].content = <<>>
         /\ \E c \in CallIds : StartsIn(j, c) # {}

(* C16: on every assistant message of the transcript, a call whose         *)
(* non-internal start is in the message's turn and whose completion is     *)
(* not in that turn has exactly one indicator, with status loading; a call *)
(* with no such start in the turn has no indicator, whatever completions   *)
(* the turn holds.                                                         *)
C16_PendingSurfacedUnpairedNot ==
    Resumed =>
        \A k \in AssistantOut(transcript.messages) : \A c \in CallIds :
            LET msg == transcript.messages[k]
                i == Sources[k]
            IN /\ (StartsIn(i, c) # {} /\ CompletesIn(i, c) = {}) =>
                     /\ Cardinality(IndicatorsFor(msg, c)) = 1
                     /\ \A n \in IndicatorsFor(msg, c) :
                            msg.toolEvents[n].status = "loading"
               /\ StartsIn(i, c) = {} => IndicatorsFor(msg, c) = {}

C16_Witness ==
    /\ Resumed
    /\ \E k1, k2 \in AssistantOut(transcript.messages) : \E c \in CallIds :
         /\ StartsIn(Sources[k1], c) # {}
         /\ CompletesIn(Sources[k1], c) = {}
         /\ Len(transcript.messages[k1].toolEvents) = 1
         /\ transcript.messages[k1].toolEvents[1].status = "loading"
         /\ StartsIn(Sources[k2], c) = {}
         /\ CompletesIn(Sources[k2], c) # {}
         /\ transcript.messages[k2].toolEvents = <<>>

ExpectedStatus(i, c) ==
    IF CompletesIn(i, c) = {} THEN "loading"
    ELSE IF log[Max(CompletesIn(i, c))].success THEN "success" ELSE "error"

(* C17: every indicator on an assistant message belongs to a call started  *)
(* in the message's own turn, carries the tool name of that turn's start   *)
(* and the status given by that turn's completions alone, also when the    *)
(* same call id occurs in another turn.                                    *)
C17_PairingScopedToTurn ==
    Resumed =>
        \A k \in AssistantOut(transcript.messages) :
            \A n \in 1..Len(transcript.messages[k].toolEvents) :
                LET te == transcript.messages[k].toolEvents[n]
                    i == Sources[k]
                IN /\ StartsIn(i, te.toolCallId) # {}
                   /\ te.toolName = log[Max(StartsIn(i, te.toolCallId))].toolName
                   /\ te.status = ExpectedStatus(i, te.toolCallId)

C17_Witness ==
    /\ Resumed
    /\ \E k \in AssistantOut(transcript.messages) :
         /\ Len(transcript.messages[k].toolEvents) = 1
         /\ transcript.messages[k].toolEvents[1].status = "loading"
         /\ \E j \in 1..Len(log) :
              /\ LogIs(j, "tool.execution_complete")
              /\ log[j].toolCallId = transcript.messages[k].toolEvents[1].toolCallId
              /\ 0 < TurnStart(j)
              /\ TurnStart(j) < TurnStart(Sources[k])

TurnModel(i) ==
    IF UsageIn(i) # {} THEN log[Max(UsageIn(i))].model
    ELSE SessionModelBefore(TurnOpen(i))

StartedCalls(i) == {c \in CallIds : StartsIn(i, c) # {}}

Flattened(out, fallback) ==
    /\ Len(out) = Len(Sources)
    /\ \A k \in 1..Len(out) :
         LET i == Sources[k] IN
         /\ out[k].content = log[i].content
         /\ IF LogIs(i, "user.message")
            THEN /\ out[k].role = "user"
                 /\ out[k].toolEvents = <<>>
            ELSE /\ out[k].role = "assistant"
                 /\ out[k].model = IF TurnModel(i) # NoModel THEN TurnModel(i)
                                   ELSE fallback
                 /\ Len(out[k].toolEvents) = Cardinality(StartedCalls(i))
                 /\ \A c \in StartedCalls(i) :
                        Cardinality(IndicatorsFor(out[k], c)) = 1

C18_LastStartWins ==
    /\ [][(Handles("tool.execution_start") /\ last'.toolName \notin InternalNames) =>
            /\ DOMAIN pendingToolCalls' = DOMAIN pendingToolCalls \cup {last'.toolCallId}
            /\ pendingToolCalls'[last'.toolCallId] =
                 [toolName |-> last'.toolName, arguments |-> last'.arguments]
            /\ \A c \in DOMAIN pendingToolCalls :
                 c # last'.toolCallId => pendingToolCalls'[c] = pendingToolCalls[c]]_vars
    /\ [](Resumed =>
            \A k \in AssistantOut(transcript.messages) : \A c \in StartedCalls(Sources[k]) :
                LET msg == transcript.messages[k]
                    start == log[Max(StartsIn(Sources[k], c))]
                IN /\ Cardinality(IndicatorsFor(msg, c)) = 1
                   /\ \A n \in IndicatorsFor(msg, c) :
                        /\ msg.toolEvents[n].toolName = start.toolName
                        /\ msg.toolEvents[n].label =
                             ToolLabel(start.toolName, msg.toolEvents[n].status,
                                       start.arguments))

C18_Witness ==
    /\ Resumed
    /\ pos = Len(log)
    /\ "c1" \in DOMAIN pendingToolCalls
    /\ pendingToolCalls["c1"] = [toolName |-> "edit", arguments |-> OtherPathArgs]
    /\ \E k \in AssistantOut(transcript.messages) :
         /\ \E j1, j2 \in StartsIn(Sources[k], "c1") :
              j1 < j2 /\ log[j1].toolName = "view" /\ log[j2].toolName = "edit"
         /\ Len(transcript.messages[k].toolEvents) = 1
         /\ transcript.messages[k].toolEvents[1].toolName = "edit"
         /\ transcript.messages[k].toolEvents[1].label = <<"Editing ", "g">>

(* What a reader of the transcript sees of its messages.                   *)
Shown(msgs) == [k \in 1..Len(msgs) |->
                   [role |-> msgs[k].role, content |-> msgs[k].content,
                    model |-> msgs[k].model, toolEvents |-> msgs[k].toolEvents]]

ResumeCall == transcript'.runs # transcript.runs

(* C21: reconstructing the same log twice, the second time right after the *)
(* first, returns the same messages (roles, texts, models and tool         *)
(* executions in the same order).                                          *)
C21_ReconstructionIdempotent ==
    (transcript.runs = 2 /\ transcript.ok /\ transcript.prevOk) =>
        Shown(transcript.messages) = Shown(transcript.prevMessages)

CountType(ms, t) == Cardinality({n \in 1..Len(ms) : ms[n].type = t})

Posted == SubSeq(toWebview', Len(toWebview) + 1, Len(toWebview'))

(* C22: a resume request either succeeds, and the webview is posted one    *)
(* sessionResumed, carrying one message per non-blank message event of the *)
(* log, and no error; or it fails, and the webview is posted one error and *)
(* no sessionResumed.  No other step posts a sessionResumed.               *)
C22_OneOutcomePerResume ==
    [][IF ResumeCall
       THEN \/ /\ transcript'.ok
               /\ CountType(Posted, "sessionResumed") = 1
               /\ CountType(Posted, "error") = 0
               /\ Posted[Len(Posted)].type = "sessionResumed"
               /\ Posted[Len(Posted)].messages = transcript'.messages
               /\ Len(transcript'.messages) = Len(Sources)
               /\ \A k \in 1..Len(Sources) :
                    transcript'.messages[k].content = log[Sources[k]].content
            \/ /\ ~transcript'.ok
               /\ CountType(Posted, "sessionResumed") = 0
               /\ CountType(Posted, "error") = 1
               /\ Len(Posted) = 1
       ELSE CountType(toWebview', "sessionResumed") <= CountType(toWebview, "sessionResumed")]_vars

C22_Witness ==
    /\ transcript.done
    /\ ~transcript.ok
    /\ ~transcript.fetched
    /\ Len(log) > 2
    /\ toWebview # <<>>
    /\ toWebview[Len(toWebview)].type = "error"
    /\ CountType(toWebview, "sessionResumed") = 0

(* C23: whenever getMessages() returns a log, the empty log included,      *)
(* resumeSession returns a transcript.                                     *)
C23_ReconstructionNeverRaises ==
    (transcript.done /\ transcript.fetched) => transcript.ok

(* C24: a resume requested while a live message is open leaves no current  *)
(* message id and an empty live pairing table behind for the               *)
(* reconstruction.                                                         *)
C24_ResumeTearsDownLiveState ==
    [][(ResumeCall /\ currentMessageId # NoId) =>
           /\ currentMessageId' = NoId
           /\ DOMAIN pendingToolCalls' = {}]_vars

StartedSinceResume(c) ==
    \E j \in (transcript.at + 1)..pos :
        LogIs(j, "tool.execution_start") /\ log[j].toolCallId = c

(* C25: after a resume, a tool completion for a call id that has not been  *)
(* started since the resume posts nothing to the webview.                  *)
C25_NoEntrySurvivesBoundary ==
    [][(Handles("tool.execution_complete") /\ Resumed
          /\ ~StartedSinceResume(last'.toolCallId)) =>
           toWebview' = toWebview]_vars

StripUnknown(l) == SelectSeq(l, LAMBDA e : e \notin OtherEvents)

StripAfterFirst(l) == IF l = <<>> THEN l ELSE <<l[1]>> \o StripUnknown(Tail(l))

UnknownIgnoredLive ==
    Handles("session.info") =>
        /\ toWebview' = toWebview
        /\ currentMessageId' = currentMessageId
        /\ pendingToolCalls' = pendingToolCalls

(* C26: an event of an unrecognized type is ignored.  Live, handling it    *)
(* posts nothing and leaves currentMessageId and the pairing table as they *)
(* were.  On resume, the transcript of a log is the transcript of the log  *)
(* without its unrecognized events, wherever they stand in it.             *)
C26_UnknownIgnored ==
    [][/\ UnknownIgnoredLive
       /\ (ResumeCall /\ transcript'.ok /\ StripUnknown(log) # <<>>) =>
             Shown(transcript'.messages) =
                 Shown(reconstruct(StripUnknown(log), currentModel).messages)]_vars

(* C26, amended: as above for unrecognized events that stand after the     *)
(* first event of the log; every fetched log with a first event is         *)
(* reconstructed.                                                          *)
C26_UnknownIgnoredAfterFirst ==
    [][/\ UnknownIgnoredLive
       /\ (ResumeCall /\ transcript'.fetched /\ log # <<>>) =>
             /\ transcript'.ok
             /\ Shown(transcript'.messages) =
                  Shown(reconstruct(StripAfterFirst(log), currentModel).messages)]_vars

C26_Witness ==
    /\ Resumed
    /\ pos = Len(log)
    /\ Len(log) = 3
    /\ log[1].type = "assistant.message"
    /\ log[2] \in OtherEvents
    /\ log[3].type = "tool.execution_start"
    /\ Len(transcript.messages) = 1
    /\ Len(transcript.messages[1].toolEvents) = 1

ToolStatuses(evs) == {<<evs[n].toolCallId, evs[n].status>> : n \in 1..Len(evs)}

(* The live display of message 1 is complete and has not been replaced by  *)
(* the resumed transcript yet.                                             *)
LiveDisplayComplete ==
    /\ pos = Len(log)
    /\ messages # <<>>
    /\ messages[1].id = 1
    /\ CountType(toWebview, "sessionResumed") = 1
    /\ \A n \in 1..Len(toWebview) : toWebview[n].type \in {"modelChanged", "sessionResumed"}

OneOpenTurn ==
    /\ log # <<>>
    /\ log[1].type = "assistant.message"
    /\ \A j \in 1..Len(log) : ~LogIs(j, "user.message")

(* C29: for a log that is one turn, the tool executions on the resumed     *)
(* assistant messages, with their statuses, are those the live display     *)
(* shows after the same events.                                            *)
C29_ResumePairsAsLive ==
    (Resumed /\ transcript.at = Len(log) /\ OneOpenTurn /\ LiveDisplayComplete) =>
        \A k \in AssistantOut(transcript.messages) :
            ToolStatuses(transcript.messages[k].toolEvents) =
                ToolStatuses(messages[1].toolEvents)

LastModelEvent(i) == Max(UsageIn(i) \cup ChangesIn(i))

BothIn(i) == UsageIn(i) # {} /\ ChangesIn(i) # {}

FormattedArgs ==
    IF formatted.data.arguments = UndefRec THEN EmptyArgs ELSE formatted.data.arguments

(* C27: createToolEvent returns a label for every payload, and a tool name *)
(* outside the known categories gets its humanized name, with an ellipsis  *)
(* while the call is loading.                                              *)
C27_FormatterTotal ==
    formatted.done =>
        /\ ~formatted.raised
        /\ formatted.data.toolName = "my_tool" =>
             formatted.event.label =
                 IF formatted.status = "loading"
                 THEN <<"M", "y", " ", "t", "o", "o", "l", "...">>
                 ELSE <<"M", "y", " ", "t", "o", "o", "l">>

DetailsFromText ==
    /\ formatted.done
    /\ ~formatted.raised
    /\ formatted.status # "error" \/ formatted.data.error = UndefRec

Bounded(details, text, limit) ==
    /\ Len(details) <= limit + 3
    /\ Len(text) <= limit => details = text

(* C28: the details of a shell-command tool are its command text cut at 40 *)
(* characters, those of a search or web-search tool its query text cut at  *)
(* 30 characters, with a three-character ellipsis when cut and unchanged   *)
(* when within the threshold.                                              *)
C28_DetailsTruncated ==
    DetailsFromText =>
        /\ (formatted.data.toolName = "run_command"
              /\ FormattedArgs.command \notin {Undef, NumberValue}) =>
             Bounded(formatted.event.details, FormattedArgs.command, CmdLimit)
        /\ (formatted.data.toolName \in {"grep_search", "web_search"}
              /\ FormattedArgs.query # Undef) =>
             Bounded(formatted.event.details, FormattedArgs.query, QueryLimit)

ModelChangesIn(ms) == {n \in 1..Len(ms) : ms[n].type = "modelChanged"}

(* The last used model of the log: the model of its last assistant message *)
(* event, or the service's current model when that turn has none.          *)
ExpectedLastUsed ==
    IF AssistantPositions = {} THEN NoModel
    ELSE LET t == TurnModel(Max(AssistantPositions))
         IN IF t # NoModel THEN t ELSE currentModel

(* C31: a resume posts modelChanged only for a last used model that        *)
(* differs from the model the webview shows.                               *)
C31_ModelChangedOnlyWhenDifferent ==
    [][ResumeCall =>
         \A n \in ModelChangesIn(Posted) : Posted[n].modelId # selectedModelId]_vars

(* C31, amended: a successful resume of a log with an assistant message    *)
(* posts one modelChanged, carrying the last used model, whether or not    *)
(* the webview already shows that model; any other resume posts none.      *)
C31_ModelChangedWhenDetermined ==
    [][ResumeCall =>
         IF transcript'.ok /\ AssistantPositions # {}
         THEN /\ Cardinality(ModelChangesIn(Posted)) = 1
              /\ Posted[1] = [type |-> "modelChanged", modelId |-> ExpectedLastUsed]
              /\ currentModel' = ExpectedLastUsed
         ELSE ModelChangesIn(Posted) = {}]_vars

C31_Witness ==
    /\ Resumed
    /\ selectedModelId = "m1"
    /\ Len(toWebview) = 2
    /\ toWebview[1] = [type |-> "modelChanged", modelId |-> "m1"]
    /\ toWebview[2].type = "sessionResumed"

(* C34: when a stopped generation's idle event arrives after a new message *)
(* was opened, the new message stays open, and a trailing delta of the     *)
(* stopped generation is not posted for the new message.                   *)
C34_TerminalClosesOwnGeneration ==
    [][(abortedId # NoId /\ currentMessageId # NoId /\ currentMessageId # abortedId) =>
         /\ Handles("session.idle") => currentMessageId' = currentMessageId
         /\ Handles("assistant.message_delta") =>
              \A n \in 1..Len(Posted) :
                  Posted[n].type = "streamChunk" => Posted[n].messageId # currentMessageId]_vars

(* C36: after the webview handles sessionResumed it shows the delivered    *)
(* messages, whatever they are.                                            *)
C36_ResumedTranscriptDisplayed ==
    [][WebviewConsumes("sessionResumed") => messages' = Head(toWebview).messages]_vars

UserShown == \E n \in 1..Len(messages) : messages[n].role = "user"

(* C37: once the messages of a send and their replies are all handled, the *)
(* user message added by the send is displayed.                            *)
C37_WelcomeSendKeepsUserMessage ==
    (submitted > 0 /\ toHost = <<>> /\ toWebview = <<>> /\ tasks = <<>>) => UserShown

(* C38: when the webview has handled every message and is not generating,  *)
(* no message is marked as streaming.                                      *)
C38_NoStreamingWhenIdle ==
    (toWebview = <<>> /\ ~isGenerating) => streamingMessageId = NoId

(* C39: after a failed resume the service holds no session or a live one.  *)
C39_NoDestroyedSessionKept ==
    (transcript.done /\ ~transcript.ok) =>
        (session = NoSession \/ session \in liveSessions)

Tagged(m) == m.type \in {"streamChunk", "streamEnd", "toolEvent"} /\ m.messageId # NoId

(* C35: a streamChunk, streamEnd or toolEvent with a message id is posted  *)
(* after the addMessage of that id: every message id is announced by an    *)
(* addMessage in the step that generates it, and the tagged messages carry *)
(* ids generated before.                                                   *)
C35_OpenedBeforeUse ==
    [][/\ \A n \in 1..Len(Posted) :
            Tagged(Posted[n]) => Posted[n].messageId \in 1..nextMsg
       /\ nextMsg' # nextMsg =>
            /\ nextMsg' = nextMsg + 1
            /\ Len(Posted) = 1
            /\ Posted[1].type = "addMessage"
            /\ Posted[1].id = nextMsg']_vars

C35_Witness ==
    /\ nextMsg = 1
    /\ Len(toWebview) = 2
    /\ toWebview[1].type = "streamChunk"
    /\ toWebview[1].messageId = 1
    /\ toWebview[2].type = "toolEvent"
    /\ toWebview[2].messageId = 1
    /\ \E n \in 1..Len(messages) : messages[n].id = 1

ResumePending == \E i \in 1..Len(tasks) : tasks[i].kind = "resumeSession"

ResumedSession == (CHOOSE i \in 1..Len(tasks) : tasks[i].kind = "resumeSession")

(* C32: while resumeSession is waiting for the log, the live handler       *)
(* handles no event of the session being resumed.                          *)
C32_NoLiveEventDuringResume ==
    [][ResumePending =>
         ~(last' # NoEvent /\ last'.sid = tasks[ResumedSession].sid)]_vars

(* C33: an event of a session that is not the service's session posts      *)
(* nothing tagged with the open message and leaves that message open.      *)
C33_AbandonedSessionIgnored ==
    [][(last' # NoEvent /\ session # NoSession /\ last'.sid # session
          /\ currentMessageId # NoId) =>
         /\ currentMessageId' = currentMessageId
         /\ \A n \in 1..Len(Posted) :
              Tagged(Posted[n]) => Posted[n].messageId # currentMessageId]_vars

====
